---- MODULE Spec2Model ----
(***************************************************************************)
(* Verification model of the Filters-embedded repository:                  *)
(*   - kalman/src/lib.rs   : KalmanFilter::filter, KalmanFilter::smooth,    *)
(*                           predict_step, update_step, filter_step,        *)
(*                           smoothing_step                                 *)
(*   - highpass/src/lib.rs : highpass_filter                                *)
(*                                                                          *)
(* Numbers are exact rationals <<numerator, denominator>> in lowest terms   *)
(* with a positive denominator, so the algebra of the f64/f32 code is       *)
(* modelled exactly and floating-point rounding is not.  Matrices are       *)
(* sequences of rows, vectors are sequences of numbers.  State dimension    *)
(* n is 1 or 2 and observation dimension m is 1 or 2.                       *)
(***************************************************************************)
EXTENDS Integers, Sequences, FiniteSets, TLC

VARIABLES
    kf,         \* the KalmanFilter struct: q, r, h, f, x0, p0
    data,       \* the observation sequence handed to filter
    pc,         \* where the caller of the kalman crate is
    filtered,   \* filter's first result
    predicted,  \* filter's second result
    smoothed,   \* smooth's result
    panicMsg,   \* the message of the panic that ended the caller, or ""
    stepOut,    \* the last result of filter_step and the index it was called at
    hpRc,       \* highpass_filter: rc
    hpDt,       \* highpass_filter: dt
    hpInput,    \* highpass_filter: the buffer as it was handed in (x)
    hpData,     \* highpass_filter: the buffer (y after the call)
    hpPc        \* where the caller of highpass_filter is

vars == <<kf, data, pc, filtered, predicted, smoothed, panicMsg, stepOut,
          hpRc, hpDt, hpInput, hpData, hpPc>>

kalmanVars == <<kf, data, pc, filtered, predicted, smoothed, panicMsg, stepOut>>

hpVars == <<hpRc, hpDt, hpInput, hpData, hpPc>>

(***************************************************************************)
(* Bounds of the model.                                                    *)
(***************************************************************************)
\* Longest observation sequence handed to filter.
MaxT == 3

\* Largest entry of the 1-dimensional model matrices f, h, q, r, p0.
MaxVal == 1

\* Longest buffer handed to highpass_filter.
MaxLen == 3

\* Largest sample in a highpass_filter buffer.
MaxSample == 2

(***************************************************************************)
(* Scalar arithmetic (f64 / f32 in the source, exact here).                *)
(***************************************************************************)
Abs(a) == IF a < 0 THEN -a ELSE a

RECURSIVE GCD(_, _)
GCD(a, b) == IF b = 0 THEN a ELSE GCD(b, a % b)

\* The number n/d in lowest terms, d # 0.
Rat(n, d) ==
    LET g == GCD(Abs(n), Abs(d))
        s == IF d < 0 THEN -1 ELSE 1
    IN  <<(s * n) \div g, (s * d) \div g>>

R(i) == <<i, 1>>

Zero == R(0)

One == R(1)

\* a + b over the least common denominator.
RAdd(a, b) ==
    LET g == GCD(a[2], b[2])
    IN  Rat(a[1] * (b[2] \div g) + b[1] * (a[2] \div g), (a[2] \div g) * b[2])

RNeg(a) == <<0 - a[1], a[2]>>

RSub(a, b) == RAdd(a, RNeg(b))

\* a * b, cancelling across before multiplying.
RMul(a, b) ==
    LET g1 == GCD(Abs(a[1]), b[2])
        g2 == GCD(Abs(b[1]), a[2])
    IN  <<(a[1] \div g1) * (b[1] \div g2), (a[2] \div g2) * (b[2] \div g1)>>

\* a / b, b # 0.
RDiv(a, b) == RMul(a, IF b[1] < 0 THEN <<0 - b[2], 0 - b[1]>> ELSE <<b[2], b[1]>>)

RLeq(a, b) == a[1] * b[2] <= b[1] * a[2]

(***************************************************************************)
(* rulinalg Matrix<f64> and Vector<f64>.                                   *)
(***************************************************************************)
\* The function f on 1..n as the tuple of its values, each evaluated once.
Tup(f, n) == SubSeq(f, 1, n)

Rows(M) == Len(M)

Cols(M) == Len(M[1])

\* Sum of f[1..n] for a sequence f of numbers.
RECURSIVE RSum(_, _)
RSum(f, n) == IF n = 0 THEN Zero ELSE RAdd(RSum(f, n - 1), f[n])

\* Matrix * Matrix
MatMul(A, B) ==
    Tup([i \in 1..Rows(A) |->
        Tup([j \in 1..Cols(B) |->
            RSum(Tup([l \in 1..Cols(A) |-> RMul(A[i][l], B[l][j])], Cols(A)),
                 Cols(A))], Cols(B))], Rows(A))

\* Matrix * Vector
MatVec(A, v) ==
    Tup([i \in 1..Rows(A) |->
        RSum(Tup([l \in 1..Cols(A) |-> RMul(A[i][l], v[l])], Cols(A)), Cols(A))],
        Rows(A))

MatAdd(A, B) ==
    Tup([i \in 1..Rows(A) |->
        Tup([j \in 1..Cols(A) |-> RAdd(A[i][j], B[i][j])], Cols(A))], Rows(A))

MatSub(A, B) ==
    Tup([i \in 1..Rows(A) |->
        Tup([j \in 1..Cols(A) |-> RSub(A[i][j], B[i][j])], Cols(A))], Rows(A))

VecAdd(u, v) == Tup([i \in 1..Len(u) |-> RAdd(u[i], v[i])], Len(u))

VecSub(u, v) == Tup([i \in 1..Len(u) |-> RSub(u[i], v[i])], Len(u))

Transpose(A) ==
    Tup([j \in 1..Cols(A) |-> Tup([i \in 1..Rows(A) |-> A[i][j]], Rows(A))], Cols(A))

Identity(n) ==
    Tup([i \in 1..n |-> Tup([j \in 1..n |-> IF i = j THEN One ELSE Zero], n)], n)

\* Determinant of a square matrix of size 1 or 2.
Det(A) ==
    IF Rows(A) = 1 THEN A[1][1]
    ELSE RSub(RMul(A[1][1], A[2][2]), RMul(A[1][2], A[2][1]))

\* Matrix::inverse(): Err for a singular matrix, Ok(inverse) otherwise
\* (square matrices of size 1 or 2).
Inverse(A) ==
    LET d == Det(A)
    IN  IF d = Zero THEN [ok |-> FALSE, val |-> <<>>]
        ELSE [ok |-> TRUE,
              val |-> IF Rows(A) = 1 THEN <<<<RDiv(One, d)>>>>
                      ELSE << <<RDiv(A[2][2], d), RDiv(RSub(Zero, A[1][2]), d)>>,
                              <<RDiv(RSub(Zero, A[2][1]), d), RDiv(A[1][1], d)>> >>]

(***************************************************************************)
(* kalman/src/lib.rs                                                       *)
(***************************************************************************)
KalmanState(x, p) == [x |-> x, p |-> p]

NoState == [x |-> <<>>, p |-> <<>>]

\* A function's outcome: it returned val, or it panicked with msg.
Returned(v) == [panic |-> FALSE, msg |-> "", val |-> v]

Panicked(m) == [panic |-> TRUE, msg |-> m, val |-> NoState]

GainExpectMsg == "Kalman gain computation failed due to failure to invert."

SmoothExpectMsg == "Predicted state covariance matrix could not be inverted."

\* The two panics of filtered[t - 1] with t = 0: the subtraction overflows in
\* a build with overflow checks, the index is out of bounds in one without.
EmptyIndexMsgs == {"attempt to subtract with overflow", "index out of bounds"}

predict_step(kalman_filter, init) ==
    LET xp == MatVec(kalman_filter.f, init.x)
        pp == MatAdd(MatMul(MatMul(kalman_filter.f, init.p),
                            Transpose(kalman_filter.f)),
                     kalman_filter.q)
    IN  KalmanState(xp, pp)

\* The innovation covariance h * pred.p * h^T + r that update_step inverts.
innovation_cov(kalman_filter, pred) ==
    MatAdd(MatMul(MatMul(kalman_filter.h, pred.p), Transpose(kalman_filter.h)),
           kalman_filter.r)

\* update_step's local k, the Kalman gain (defined when the inverse is).
kalman_gain(kalman_filter, pred) ==
    MatMul(MatMul(pred.p, Transpose(kalman_filter.h)),
           Inverse(innovation_cov(kalman_filter, pred)).val)

\* update_step adding k * measure instead of k * (measure - h * pred.x).
update_step_no_innovation(kalman_filter, pred, measure) ==
    LET identity == Identity(Len(kalman_filter.x0))
    IN  IF ~Inverse(innovation_cov(kalman_filter, pred)).ok
        THEN Panicked(GainExpectMsg)
        ELSE LET k == kalman_gain(kalman_filter, pred)
                 x == VecAdd(pred.x, MatVec(k, measure))
                 p == MatMul(MatSub(identity, MatMul(k, kalman_filter.h)), pred.p)
             IN  Returned(KalmanState(x, p))

\* update_step with (identity + k * h) instead of (identity - k * h).
update_step_plus(kalman_filter, pred, measure) ==
    LET identity == Identity(Len(kalman_filter.x0))
    IN  IF ~Inverse(innovation_cov(kalman_filter, pred)).ok
        THEN Panicked(GainExpectMsg)
        ELSE LET k == kalman_gain(kalman_filter, pred)
                 x == VecAdd(pred.x,
                             MatVec(k, VecSub(measure,
                                              MatVec(kalman_filter.h, pred.x))))
                 p == MatMul(MatAdd(identity, MatMul(k, kalman_filter.h)), pred.p)
             IN  Returned(KalmanState(x, p))

update_step(kalman_filter, pred, measure) ==
    LET identity == Identity(Len(kalman_filter.x0))
    IN  IF ~Inverse(innovation_cov(kalman_filter, pred)).ok
        THEN Panicked(GainExpectMsg)
        ELSE LET k == kalman_gain(kalman_filter, pred)
                 x == VecAdd(pred.x,
                             MatVec(k, VecSub(measure,
                                              MatVec(kalman_filter.h, pred.x))))
                 p == MatMul(MatSub(identity, MatMul(k, kalman_filter.h)), pred.p)
             IN  Returned(KalmanState(x, p))

\* filter_step updating init itself instead of the prediction from it.
filter_step_update_init(kalman_filter, init, measure) ==
    LET pred == predict_step(kalman_filter, init)
        upd == update_step(kalman_filter, init, measure)
    IN  IF upd.panic THEN [panic |-> TRUE, msg |-> upd.msg, val |-> <<NoState, NoState>>]
        ELSE [panic |-> FALSE, msg |-> "",
              val |-> <<KalmanState(upd.val.x, upd.val.p), KalmanState(pred.x, pred.p)>>]

filter_step(kalman_filter, init, measure) ==
    LET pred == predict_step(kalman_filter, init)
        upd == update_step(kalman_filter, pred, measure)
    IN  IF upd.panic THEN [panic |-> TRUE, msg |-> upd.msg, val |-> <<NoState, NoState>>]
        ELSE [panic |-> FALSE, msg |-> "",
              val |-> <<KalmanState(upd.val.x, upd.val.p), KalmanState(pred.x, pred.p)>>]

\* smoothing_step with f instead of its transpose in the smoother gain.
smoothing_step_no_transpose(kalman_filter, init, filt, pred) ==
    LET inv == Inverse(pred.p)
    IN  IF ~inv.ok THEN Panicked(SmoothExpectMsg)
        ELSE LET j == MatMul(MatMul(filt.p, kalman_filter.f), inv.val)
                 x == VecAdd(filt.x, MatVec(j, VecSub(init.x, pred.x)))
                 p == MatAdd(filt.p,
                             MatMul(MatMul(j, MatSub(init.p, pred.p)), Transpose(j)))
             IN  Returned(KalmanState(x, p))

smoothing_step(kalman_filter, init, filt, pred) ==
    LET inv == Inverse(pred.p)
    IN  IF ~inv.ok THEN Panicked(SmoothExpectMsg)
        ELSE LET j == MatMul(MatMul(filt.p, Transpose(kalman_filter.f)), inv.val)
                 x == VecAdd(filt.x, MatVec(j, VecSub(init.x, pred.x)))
                 p == MatAdd(filt.p,
                             MatMul(MatMul(j, MatSub(init.p, pred.p)), Transpose(j)))
             IN  Returned(KalmanState(x, p))

\* Vec index i of the source (from 0) is sequence index i + 1 here.
At(v, i) == v[i + 1]

\* The loop of filter predicting from predicted[k] instead of filtered[k].
RECURSIVE filter_loop_stale(_, _, _, _, _)
filter_loop_stale(self, dat, pred, filt, k) ==
    IF k >= Len(dat)
    THEN [panic |-> FALSE, msg |-> "", filtered |-> filt, predicted |-> pred]
    ELSE LET upd == update_step(self, At(pred, k), At(dat, k))
         IN  IF upd.panic
             THEN [panic |-> TRUE, msg |-> upd.msg, filtered |-> <<>>, predicted |-> <<>>]
             ELSE LET filt2 == Append(filt, upd.val)
                      pred2 == Append(pred, predict_step(self, At(pred, k)))
                  IN  filter_loop_stale(self, dat, pred2, filt2, k + 1)

\* The loop `for k in 0..t` of KalmanFilter::filter, from iteration k on.
RECURSIVE filter_loop(_, _, _, _, _)
filter_loop(self, dat, pred, filt, k) ==
    IF k >= Len(dat)
    THEN [panic |-> FALSE, msg |-> "", filtered |-> filt, predicted |-> pred]
    ELSE LET upd == update_step(self, At(pred, k), At(dat, k))
         IN  IF upd.panic
             THEN [panic |-> TRUE, msg |-> upd.msg, filtered |-> <<>>, predicted |-> <<>>]
             ELSE LET filt2 == Append(filt, upd.val)
                      pred2 == Append(pred, predict_step(self, At(filt2, k)))
                  IN  filter_loop(self, dat, pred2, filt2, k + 1)

\* KalmanFilter::filter
filter(self, dat) ==
    filter_loop(self, dat, <<KalmanState(self.x0, self.p0)>>, <<>>, 0)

Reverse(s) == Tup([i \in 1..Len(s) |-> s[Len(s) + 1 - i]], Len(s))

\* The loop of smooth without the reverse() after it.
RECURSIVE smooth_loop_unreversed(_, _, _, _, _, _)
smooth_loop_unreversed(self, filt, pred, smth, init, k) ==
    LET t == Len(filt)
    IN  IF k >= t
        THEN [panic |-> FALSE, msg |-> "", smoothed |-> smth]
        ELSE LET s == smoothing_step(self, init, At(filt, t - k - 1), At(pred, t - k))
             IN  IF s.panic
                 THEN [panic |-> TRUE, msg |-> s.msg, smoothed |-> <<>>]
                 ELSE LET smth2 == Append(smth, s.val)
                      IN  smooth_loop_unreversed(self, filt, pred, smth2,
                                                 At(smth2, k), k + 1)

\* The loop `for k in 1..t` of KalmanFilter::smooth, from iteration k on, and
\* the reverse() after it.
RECURSIVE smooth_loop(_, _, _, _, _, _)
smooth_loop(self, filt, pred, smth, init, k) ==
    LET t == Len(filt)
    IN  IF k >= t
        THEN [panic |-> FALSE, msg |-> "", smoothed |-> Reverse(smth)]
        ELSE LET s == smoothing_step(self, init, At(filt, t - k - 1), At(pred, t - k))
             IN  IF s.panic
                 THEN [panic |-> TRUE, msg |-> s.msg, smoothed |-> <<>>]
                 ELSE LET smth2 == Append(smth, s.val)
                      IN  smooth_loop(self, filt, pred, smth2, At(smth2, k), k + 1)

\* The panic of `filtered[t - 1]` when filtered is empty (see EmptyIndexMsgs).
EmptyIndex == "filtered[t - 1]"

\* KalmanFilter::smooth
smooth(self, filt, pred) ==
    LET t == Len(filt)
    IN  IF t = 0
        THEN [panic |-> TRUE, msg |-> EmptyIndex, smoothed |-> <<>>]
        ELSE smooth_loop(self, filt, pred, <<At(filt, t - 1)>>, At(filt, t - 1), 1)

(***************************************************************************)
(* The inputs: KalmanFilter structs and observation sequences.             *)
(***************************************************************************)
\* A matrix of integers as a matrix of numbers.
IntMat(M) ==
    Tup([i \in 1..Len(M) |-> Tup([j \in 1..Len(M[i]) |-> R(M[i][j])], Len(M[i]))], Len(M))

IntVec(v) == Tup([i \in 1..Len(v) |-> R(v[i])], Len(v))

\* Entries of the initial state and of the observations.
MeanValues == {0, 1}

\* State dimension 1, observation dimension 1, initial state 0.
Models1 ==
    {[q |-> IntMat(<<<<q>>>>), r |-> IntMat(<<<<r>>>>), h |-> IntMat(<<<<h>>>>),
      f |-> IntMat(<<<<f>>>>), x0 |-> IntVec(<<x>>), p0 |-> IntMat(<<<<p>>>>)] :
        q \in 0..MaxVal, r \in 0..MaxVal, h \in 0..MaxVal, f \in 0..MaxVal,
        p \in 0..MaxVal, x \in {0}}

Zero2 == <<<<0, 0>>, <<0, 0>>>>

Id2 == <<<<1, 0>>, <<0, 1>>>>

\* State dimension 2, observation dimension 1: a constant-velocity transition
\* (not symmetric) or the zero transition, position observed or nothing observed.
Models21 ==
    {[q |-> IntMat(q), r |-> IntMat(<<<<r>>>>), h |-> IntMat(<<h>>),
      f |-> IntMat(f), x0 |-> IntVec(<<x, 0>>), p0 |-> IntMat(p)] :
        q \in {Zero2, Id2}, r \in {0, 1}, h \in {<<1, 0>>, <<0, 0>>},
        f \in {<<<<1, 1>>, <<0, 1>>>>, Zero2},
        p \in {Id2, <<<<1, 1>>, <<1, 1>>>>}, x \in MeanValues}

\* State dimension 2, observation dimension 2.
Models22 ==
    {[q |-> IntMat(q), r |-> IntMat(r), h |-> IntMat(h),
      f |-> IntMat(<<<<1, 1>>, <<0, 1>>>>), x0 |-> IntVec(<<0, 0>>), p0 |-> IntMat(Id2)] :
        q \in {Zero2, Id2}, r \in {Zero2, Id2},
        h \in {Id2, <<<<1, 1>>, <<1, 1>>>>}}

Models == Models1 \cup Models21 \cup Models22

\* The observation vectors of dimension m: <<0>> and <<1>>, <<0, 1>> and <<1, 0>>.
Measures(m) ==
    {IntVec(Tup([i \in 1..m |-> IF i = 1 THEN v ELSE 1 - v], m)) : v \in MeanValues}

\* The lengths of the observation sequences for state dimension n: up to MaxT
\* for n = 1; up to 3 for n = 2, where the exact numerators and denominators
\* of a longer run leave TLC's 32-bit integers.
Lengths(n) == IF n = 1 THEN 0..MaxT ELSE 0..3

\* The observation sequences of dimension m for state dimension n.
Observations(m, n) == UNION {[1..t -> Measures(m)] : t \in Lengths(n)}

NoStep == [k |-> 0 - 1, upd |-> NoState, pred |-> NoState]

(***************************************************************************)
(* The caller of the kalman crate: it builds a KalmanFilter, runs filter    *)
(* on its observations, may call filter_step on a filtered estimate and     *)
(* the next observation, and runs smooth on filter's results.               *)
(***************************************************************************)
KalmanInit ==
    /\ kf \in Models
    /\ data \in Observations(Rows(kf.h), Len(kf.x0))
    /\ pc = "new"
    /\ filtered = <<>>
    /\ predicted = <<>>
    /\ smoothed = <<>>
    /\ panicMsg = ""
    /\ stepOut = NoStep

KalmanIdle ==
    /\ kf = [q |-> <<>>, r |-> <<>>, h |-> <<>>, f |-> <<>>, x0 |-> <<>>, p0 |-> <<>>]
    /\ data = <<>>
    /\ pc = "idle"
    /\ filtered = <<>>
    /\ predicted = <<>>
    /\ smoothed = <<>>
    /\ panicMsg = ""
    /\ stepOut = NoStep

\* let run_filter = kalman_filter.filter(&data);
Filter ==
    /\ pc = "new"
    /\ \E res \in {filter(kf, data)} :
           IF res.panic
           THEN /\ pc' = "panic"
                /\ panicMsg' = res.msg
                /\ UNCHANGED <<filtered, predicted>>
           ELSE /\ pc' = "filtered"
                /\ filtered' = res.filtered
                /\ predicted' = res.predicted
                /\ UNCHANGED panicMsg
    /\ UNCHANGED <<kf, data, smoothed, stepOut>>
    /\ UNCHANGED hpVars

\* filter_step(&kalman_filter, &filtered[k], &data[k + 1])
FilterStep ==
    /\ pc = "filtered"
    /\ stepOut = NoStep
    /\ \E k \in 0..(Len(filtered) - 2) :
        \E res \in {filter_step(kf, At(filtered, k), At(data, k + 1))} :
            IF res.panic
            THEN /\ pc' = "panic"
                 /\ panicMsg' = res.msg
                 /\ UNCHANGED stepOut
            ELSE /\ stepOut' = [k |-> k, upd |-> res.val[1], pred |-> res.val[2]]
                 /\ UNCHANGED <<pc, panicMsg>>
    /\ UNCHANGED <<kf, data, filtered, predicted, smoothed>>
    /\ UNCHANGED hpVars

\* let run_smooth = kalman_filter.smooth(&run_filter.0, &run_filter.1);
Smooth ==
    /\ pc = "filtered"
    /\ \E res \in {smooth(kf, filtered, predicted)} :
           IF res.panic
           THEN /\ pc' = "panic"
                /\ panicMsg' \in (IF res.msg = EmptyIndex THEN EmptyIndexMsgs
                                                         ELSE {res.msg})
                /\ UNCHANGED smoothed
           ELSE /\ pc' = "smoothed"
                /\ smoothed' = res.smoothed
                /\ UNCHANGED panicMsg
    /\ UNCHANGED <<kf, data, filtered, predicted, stepOut>>
    /\ UNCHANGED hpVars

(***************************************************************************)
(* highpass/src/lib.rs                                                     *)
(***************************************************************************)
\* let alpha = rc / (rc + dt);
alpha(rc, dt) == RDiv(rc, RAdd(rc, dt))

\* The loop `for i in 1..data.len()` of highpass_filter, from iteration i on.
RECURSIVE highpass_loop(_, _, _)
highpass_loop(buf, a, i) ==
    IF i >= Len(buf) THEN buf
    ELSE highpass_loop(
            [buf EXCEPT ![i + 1] =
                RMul(a, RSub(RAdd(At(buf, i - 1), At(buf, i)), At(buf, i - 1)))],
            a, i + 1)

\* highpass_filter on a non-empty buffer, with rc and dt as computed from the
\* cutoff frequency and the sampling rate.
highpass_filter(buf, rc, dt) ==
    highpass_loop([buf EXCEPT ![1] = RMul(buf[1], One)], alpha(rc, dt), 1)

\* rc = 1/(2 pi cutoff_frequency) and dt = 1/sampling_rate: positive numbers.
TimeConstants == {R(1), R(2)}

Buffers == UNION {[1..n -> {R(v) : v \in 0..MaxSample}] : n \in 0..MaxLen}

HighpassInit ==
    /\ hpRc \in TimeConstants
    /\ hpDt \in TimeConstants
    /\ hpInput \in Buffers
    /\ hpData = hpInput
    /\ hpPc = "new"

HighpassIdle ==
    /\ hpRc = One
    /\ hpDt = One
    /\ hpInput = <<>>
    /\ hpData = <<>>
    /\ hpPc = "idle"

\* highpass_filter(&mut data, sampling_rate, cutoff_frequency): data[0] panics
\* on an empty buffer.
Highpass ==
    /\ hpPc = "new"
    /\ IF Len(hpData) = 0
       THEN /\ hpPc' = "panic"
            /\ UNCHANGED hpData
       ELSE /\ hpPc' = "done"
            /\ hpData' = highpass_filter(hpData, hpRc, hpDt)
    /\ UNCHANGED <<hpRc, hpDt, hpInput>>
    /\ UNCHANGED kalmanVars

(***************************************************************************)
(* Specifications.                                                         *)
(***************************************************************************)
Init == KalmanInit /\ HighpassIdle

Next == Filter \/ FilterStep \/ Smooth

Spec == Init /\ [][Next]_vars

InitHP == KalmanIdle /\ HighpassInit

NextHP == Highpass

SpecHP == InitHP /\ [][NextHP]_vars

(***************************************************************************)
(* Properties.                                                             *)
(***************************************************************************)
\* filter returned its two sequences (it did not panic).
FilterReturned == predicted # <<>>

\* filter has just returned: nothing was called on its results yet.
FilterJustReturned == pc = "filtered" /\ stepOut = NoStep

\* smooth was called: it returned, or it panicked.
SmoothCalled ==
    \/ pc = "smoothed"
    \/ pc = "panic" /\ panicMsg \in EmptyIndexMsgs \cup {SmoothExpectMsg}

Symmetric(M) == M = Transpose(M)

\* M is positive semi-definite (square matrices of size 1 or 2).
PSD(M) ==
    /\ Symmetric(M)
    /\ \A i \in 1..Rows(M) : RLeq(Zero, M[i][i])
    /\ Rows(M) = 2 => RLeq(Zero, Det(M))

\* C1: when filter returns on T observations, filtered has T elements and
\* predicted T + 1, predicted[0] is the prior (x0, p0), and for every k < T
\* filtered[k] = update_step(predicted[k], observations[k]) and
\* predicted[k+1] = predict_step(filtered[k]).
C1_FilterRecursion ==
    FilterJustReturned =>
        /\ Len(filtered) = Len(data)
        /\ Len(predicted) = Len(data) + 1
        /\ At(predicted, 0) = KalmanState(kf.x0, kf.p0)
        /\ \A k \in 0..(Len(data) - 1) :
            /\ ~update_step(kf, At(predicted, k), At(data, k)).panic
            /\ At(filtered, k) = update_step(kf, At(predicted, k), At(data, k)).val
            /\ At(predicted, k + 1) = predict_step(kf, At(filtered, k))

\* A run of filter over three observations of a 2-dimensional state returned.
C1_Witness ==
    /\ pc = "filtered"
    /\ Len(data) = 3
    /\ Len(kf.x0) = 2
    /\ Len(filtered) = 3

\* C2: when smooth returns, its last element is the last filtered estimate,
\* state and covariance; and on a forward pass of length 1 smooth always
\* returns, and returns the filtered sequence itself.
C2_SmootherBoundary ==
    /\ pc = "smoothed" =>
        /\ Len(filtered) >= 1
        /\ Len(smoothed) >= 1
        /\ smoothed[Len(smoothed)] = filtered[Len(filtered)]
    /\ (SmoothCalled /\ Len(filtered) = 1) =>
        /\ pc = "smoothed"
        /\ smoothed = filtered

\* smooth returned on a forward pass of length 3 whose earlier estimates it
\* changed, and on one of length 1.
C2_Witness ==
    /\ pc = "smoothed"
    /\ \/ Len(filtered) = 3 /\ At(smoothed, 0) # At(filtered, 0)
       \/ Len(filtered) = 1

\* C3: when smooth returns on a forward pass of length T >= 2, smoothed is in
\* ascending time order with, for every k <= T - 2,
\*   J = filtered[k].P * F^T * inverse(predicted[k+1].P),
\*   smoothed[k].x = filtered[k].x + J * (smoothed[k+1].x - predicted[k+1].x),
\*   smoothed[k].P = filtered[k].P + J * (smoothed[k+1].P - predicted[k+1].P) * J^T.
C3_SmootherRecursion ==
    (pc = "smoothed" /\ Len(filtered) >= 2) =>
        /\ Len(smoothed) = Len(filtered)
        /\ \A k \in 0..(Len(filtered) - 2) :
            /\ Inverse(At(predicted, k + 1).p).ok
            /\ \E J \in {MatMul(MatMul(At(filtered, k).p, Transpose(kf.f)),
                                Inverse(At(predicted, k + 1).p).val)} :
                /\ At(smoothed, k).x =
                       VecAdd(At(filtered, k).x,
                              MatVec(J, VecSub(At(smoothed, k + 1).x,
                                               At(predicted, k + 1).x)))
                /\ At(smoothed, k).p =
                       MatAdd(At(filtered, k).p,
                              MatMul(MatMul(J, MatSub(At(smoothed, k + 1).p,
                                                      At(predicted, k + 1).p)),
                                     Transpose(J)))

\* smooth returned on a forward pass of length 3 over a 2-dimensional state
\* with a transition matrix that is not symmetric, and changed every
\* estimate but the last.
C3_Witness ==
    /\ pc = "smoothed"
    /\ Len(filtered) = 3
    /\ Len(kf.x0) = 2
    /\ kf.f # Transpose(kf.f)
    /\ \A k \in 0..1 : At(smoothed, k) # At(filtered, k)

\* C4 (the claim as stated): whenever smooth is called on the results of
\* filter and no inversion fails, it returns a sequence as long as the
\* observation sequence, the empty one for no observations.
C4_SmoothedLength ==
    (SmoothCalled /\ panicMsg # SmoothExpectMsg) =>
        /\ pc = "smoothed"
        /\ Len(smoothed) = Len(data)

\* The 1-dimensional scenario F=[1], Q=[0], H=[1], R=[1], x0=0, p0=1.
Scenario ==
    [q |-> IntMat(<<<<0>>>>), r |-> IntMat(<<<<1>>>>), h |-> IntMat(<<<<1>>>>),
     f |-> IntMat(<<<<1>>>>), x0 |-> IntVec(<<0>>), p0 |-> IntMat(<<<<1>>>>)]

ScenarioData == <<IntVec(<<1>>), IntVec(<<1>>), IntVec(<<1>>)>>

\* C5: in the scenario with observations [1, 1, 1], filter yields the gains
\* 1/2, 1/3, 1/4, the filtered states 1/2, 2/3, 3/4 and the filtered
\* covariances 1/2, 1/3, 1/4.
C5_Scenario ==
    (kf = Scenario /\ data = ScenarioData /\ pc # "new") =>
        /\ FilterReturned
        /\ filtered = << KalmanState(<<Rat(1, 2)>>, <<<<Rat(1, 2)>>>>),
                         KalmanState(<<Rat(2, 3)>>, <<<<Rat(1, 3)>>>>),
                         KalmanState(<<Rat(3, 4)>>, <<<<Rat(1, 4)>>>>) >>
        /\ kalman_gain(kf, At(predicted, 0)) = <<<<Rat(1, 2)>>>>
        /\ kalman_gain(kf, At(predicted, 1)) = <<<<Rat(1, 3)>>>>
        /\ kalman_gain(kf, At(predicted, 2)) = <<<<Rat(1, 4)>>>>

\* filter returned in the scenario.
C5_Witness ==
    /\ kf = Scenario
    /\ data = ScenarioData
    /\ pc = "filtered"
    /\ Len(filtered) = 3

\* C6 (the claim as stated): a singular innovation covariance never ends the
\* caller with a panic; update_step hands the failure back as a value.
C6_NoPanicOnSingularInnovation ==
    pc = "panic" => panicMsg # GainExpectMsg

\* C7 (the claim as stated): a singular predicted covariance never ends the
\* caller with a panic; smooth hands the failure back as a value.
C7_NoPanicOnSingularPredicted ==
    pc = "panic" => panicMsg # SmoothExpectMsg

\* C8: along a run of filter from a positive semi-definite p0, q and r, every
\* predicted covariance is positive semi-definite and every filtered
\* covariance P' = (I - K*H)*P satisfies 0 <= P' <= P in the positive
\* semi-definite order, P the predicted covariance at the same index.
C8_UpdateShrinksCovariance ==
    FilterReturned =>
        \A k \in 0..(Len(filtered) - 1) :
            /\ PSD(At(predicted, k).p)
            /\ PSD(At(filtered, k).p)
            /\ PSD(MatSub(At(predicted, k).p, At(filtered, k).p))

\* A run over a 2-dimensional state in which an update made the covariance
\* strictly smaller, and one in which an update left it as it was.
C8_Witness ==
    /\ pc = "filtered"
    /\ Len(filtered) >= 2
    /\ Len(kf.x0) = 2
    /\ At(filtered, 1).p # At(predicted, 1).p
    /\ At(filtered, 1).p # IntMat(Zero2)

\* C9: filter on the first j observations returns the first j filtered and
\* first j + 1 predicted estimates of filter on all of them, for every j <= T;
\* and filter_step(filtered[k], observations[k+1]) returns
\* (filtered[k+1], predicted[k+1]), the prediction from filtered[k] and the
\* update of that prediction.
C9_Incremental ==
    /\ FilterJustReturned =>
        \A j \in 0..Len(data) :
            filter(kf, SubSeq(data, 1, j)) =
                [panic |-> FALSE, msg |-> "",
                 filtered |-> SubSeq(filtered, 1, j),
                 predicted |-> SubSeq(predicted, 1, j + 1)]
    /\ stepOut # NoStep =>
        /\ stepOut.upd = At(filtered, stepOut.k + 1)
        /\ stepOut.pred = At(predicted, stepOut.k + 1)
        /\ stepOut.pred = predict_step(kf, At(filtered, stepOut.k))
        /\ stepOut.upd =
               update_step(kf, stepOut.pred, At(data, stepOut.k + 1)).val

\* filter_step was called on filtered[1] and observations[2] of a run over
\* three observations, and its update differs from its prediction.
C9_Witness ==
    /\ Len(data) = 3
    /\ stepOut # NoStep
    /\ stepOut.k = 1
    /\ stepOut.upd # stepOut.pred

\* C10 (the claim as stated): after highpass_filter on a non-empty buffer,
\* y[0] = x[0] and y[i] = alpha * (y[i-1] + x[i] - x[i-1]) for every i >= 1,
\* x the buffer as handed in and y the buffer after the call.
C10_HighpassRecurrence ==
    hpPc = "done" =>
        /\ At(hpData, 0) = At(hpInput, 0)
        /\ \A i \in 1..(Len(hpData) - 1) :
            At(hpData, i) =
                RMul(alpha(hpRc, hpDt),
                     RSub(RAdd(At(hpData, i - 1), At(hpInput, i)),
                          At(hpInput, i - 1)))

====
